---- MODULE Spec2Model ----
(***************************************************************************)
(* The adaptive video frame sampler of the client                          *)
(* (client/src/hooks/useSmartVideoStream.ts): the React hook's state and   *)
(* refs, the video elements and interval timers it creates, and its        *)
(* handlers startStreaming, stopStreaming, the loadedmetadata callback,    *)
(* the interval callback captureAndAnalyzeFrame and the effect cleanup.    *)
(*                                                                         *)
(* Time is in milliseconds.  Fractions (the change fraction, the change    *)
(* threshold, scaled dimensions) are pairs <<numerator, denominator>>.     *)
(***************************************************************************)
EXTENDS Integers, Sequences, FiniteSets, TLC

(***************************************************************************)
(* Bounds of the model.                                                    *)
(***************************************************************************)
MaxStarts == 2      \* calls of startStreaming in one behaviour
MaxSteps == 3       \* clock steps (one check interval each) in one behaviour
MaxVideoWidth == 6  \* videoWidth of the videos that are scaled
MaxVideoHeight == 5 \* videoHeight of the videos that are scaled
MaxCards == 2       \* documents of collection "flashcards"
MaxAcquisitions == 2 \* calls of getDisplayMedia and getUserMedia in one behaviour
MaxToolCalls == 2   \* tool calls received on one realtime connection

(***************************************************************************)
(* Program constants.                                                      *)
(***************************************************************************)
NULL == 0           \* the null of a ref holding an element or timer id
sampleRate == 4     \* "Check every 4th pixel for speed"
channelDelta == 20  \* "any channel differs by more than 20"

DEFAULT_CONFIG ==
  [ frameRate |-> 5,
    quality |-> <<6, 10>>,
    maxWidth |-> 1280,
    maxHeight |-> 720,
    changeThreshold |-> <<5, 100>>,
    minFrameInterval |-> 500 ]

\* The partial configurations a caller overlays on the defaults.
ConfigOverrides ==
  { [changeThreshold |-> <<5, 100>>, minFrameInterval |-> 400],
    [changeThreshold |-> <<1, 1>>, minFrameInterval |-> 400],
    [changeThreshold |-> <<5, 100>>, minFrameInterval |-> 0] }

\* streamConfig = { ...DEFAULT_CONFIG, ...config }
MergeConfig(over) ==
  [ k \in DOMAIN DEFAULT_CONFIG |->
      IF k \in DOMAIN over THEN over[k] ELSE DEFAULT_CONFIG[k] ]

Sources == {"screen", "camera"}
NoSource == "none"

\* An optional value: the empty sequence is null, <<x>> holds x.
None == <<>>
Some(x) == <<x>>

(***************************************************************************)
(* Frames.  An ImageData is [width, height, content]; its RGBA bytes are   *)
(* Byte(frame, i), i < DataLength(frame).  The contents are the pictures   *)
(* the stream shows: "A" is the base picture, "B" differs from "A" by more *)
(* than the channel delta in every 8th pixel (half of the sampled pixels), *)
(* "C" differs from "A" in every pixel, "D" differs from "A" only in       *)
(* pixels that change detection does not sample.  "P" is "A" with 20 more  *)
(* in every colour channel, "R" is "A" with 21 more red, "U" is "A" with   *)
(* 21 less blue, and "T" is "A" made transparent.                          *)
(***************************************************************************)
Contents == {"A", "B", "C", "D"}
VideoDims == {<<4, 2>>, <<2, 2>>}

\* what the stream shows at a tick: a picture and the size of the video
Pictures == {<<"A", <<4, 2>>>>, <<"B", <<4, 2>>>>, <<"A", <<2, 2>>>>}

Channel(content, p, c) ==
  IF c = 3 THEN (IF content = "T" THEN 0 ELSE 255)
  ELSE CASE content \in {"A", "T"} -> 100
         [] content = "P" -> 120
         [] content = "R" -> IF c = 0 THEN 121 ELSE 100
         [] content = "U" -> IF c = 2 THEN 79 ELSE 100
         [] content = "B" -> IF p % 8 = 4 THEN 200 ELSE 100
         [] content = "D" -> IF p % 4 = 1 THEN 200 ELSE 100
         [] OTHER -> 10

\* data[i] of the ImageData, i a 0-based byte index
Byte(frame, i) == Channel(frame.content, i \div 4, i % 4)

DataLength(frame) == 4 * frame.width * frame.height

Abs(x) == IF x < 0 THEN -x ELSE x


(***************************************************************************)
(* calculateFrameDifference: the change fraction of two frames, as the     *)
(* fraction differentPixels / (totalPixels / sampleRate).                  *)
(***************************************************************************)
\* a change detection that looks at every pixel
SampledBytes_EveryPixel(frame) ==
  { i \in 0..(DataLength(frame) - 1) : i % 4 = 0 }

SampledBytes(frame) ==
  { i \in 0..(DataLength(frame) - 1) : i % (4 * sampleRate) = 0 }

\* a comparison that counts a difference of exactly the delta
PixelDiffers_AtLeast(currentFrame, previousFrame, i) ==
  LET rDiff == Abs(Byte(currentFrame, i) - Byte(previousFrame, i))
      gDiff == Abs(Byte(currentFrame, i + 1) - Byte(previousFrame, i + 1))
      bDiff == Abs(Byte(currentFrame, i + 2) - Byte(previousFrame, i + 2))
  IN rDiff >= channelDelta \/ gDiff >= channelDelta \/ bDiff >= channelDelta

PixelDiffers(currentFrame, previousFrame, i) ==
  LET rDiff == Abs(Byte(currentFrame, i) - Byte(previousFrame, i))
      gDiff == Abs(Byte(currentFrame, i + 1) - Byte(previousFrame, i + 1))
      bDiff == Abs(Byte(currentFrame, i + 2) - Byte(previousFrame, i + 2))
  IN rDiff > channelDelta \/ gDiff > channelDelta \/ bDiff > channelDelta

\* a change detection that compares the pixels of frames of different sizes
calculateFrameDifference_NoSizeCheck(currentFrame, previousFrame) ==
  LET differentPixels ==
        Cardinality({ i \in SampledBytes(currentFrame) :
                        PixelDiffers(currentFrame, previousFrame, i) })
      totalPixels == currentFrame.width * currentFrame.height
  IN <<differentPixels * sampleRate, totalPixels>>

calculateFrameDifference(currentFrame, previousFrame) ==
  IF currentFrame.width # previousFrame.width
       \/ currentFrame.height # previousFrame.height
  THEN <<1, 1>>
  ELSE LET differentPixels ==
             Cardinality({ i \in SampledBytes(currentFrame) :
                             PixelDiffers(currentFrame, previousFrame, i) })
           totalPixels == currentFrame.width * currentFrame.height
       IN <<differentPixels * sampleRate, totalPixels>>

\* a >= b for fractions with positive denominators
FracGeq(a, b) == a[1] * b[2] >= b[1] * a[2]

(***************************************************************************)
(* The scaled dimensions of captureAndAnalyzeFrame: the width constraint,  *)
(* then the height constraint on the already scaled dimensions.  The       *)
(* ImageData read back has the integer parts as its width and height.      *)
(***************************************************************************)
\* a scaling whose height constraint looks at the height of the video, not at
\* the height the width constraint left
ScaledDims_HeightOfVideo(videoWidth, videoHeight, cfg) ==
  LET w1 == IF videoWidth > cfg.maxWidth
              THEN <<cfg.maxWidth, 1>> ELSE <<videoWidth, 1>>
      tooHigh == videoHeight > cfg.maxHeight
      w2 == IF tooHigh
              THEN <<w1[1] * cfg.maxHeight, w1[2] * videoHeight>> ELSE w1
      h2 == IF tooHigh THEN <<cfg.maxHeight, 1>>
            ELSE IF videoWidth > cfg.maxWidth
              THEN <<videoHeight * cfg.maxWidth, videoWidth>>
              ELSE <<videoHeight, 1>>
  IN <<w2[1] \div w2[2], h2[1] \div h2[2]>>

\* a scaling that applies the width constraint only
ScaledDims_WidthOnly(videoWidth, videoHeight, cfg) ==
  LET w1 == IF videoWidth > cfg.maxWidth
              THEN <<cfg.maxWidth, 1>> ELSE <<videoWidth, 1>>
      h1 == IF videoWidth > cfg.maxWidth
              THEN <<videoHeight * cfg.maxWidth, videoWidth>>
              ELSE <<videoHeight, 1>>
  IN <<w1[1] \div w1[2], h1[1] \div h1[2]>>

ScaledDims(videoWidth, videoHeight, cfg) ==
  LET w1 == IF videoWidth > cfg.maxWidth
              THEN <<cfg.maxWidth, 1>> ELSE <<videoWidth, 1>>
      h1 == IF videoWidth > cfg.maxWidth
              THEN <<videoHeight * cfg.maxWidth, videoWidth>>
              ELSE <<videoHeight, 1>>
      tooHigh == h1[1] > cfg.maxHeight * h1[2]
      w2 == IF tooHigh
              THEN <<w1[1] * cfg.maxHeight * h1[2], w1[2] * h1[1]>> ELSE w1
      h2 == IF tooHigh THEN <<cfg.maxHeight, 1>> ELSE h1
  IN <<w2[1] \div w2[2], h2[1] \div h2[2]>>

(***************************************************************************)
(* The arithmetic of the scaling is that of doubles.  A quotient of two    *)
(* integers is exact when it is a dyadic fraction; the height the width    *)
(* constraint leaves is otherwise a rounded double, and the width the      *)
(* height constraint then computes from it, when it is a whole number N in *)
(* exact arithmetic, can come out just below N.  canvas.width, and the     *)
(* width and height getImageData is given, are truncated to integers, so   *)
(* the frame is then N - 1 wide.  CanvasDims is the set of the dimensions  *)
(* the frame can have.                                                     *)
(***************************************************************************)
RECURSIVE Gcd(_, _)
Gcd(a, b) == IF b = 0 THEN a ELSE Gcd(b, a % b)

RECURSIVE IsPowerOfTwo(_)
IsPowerOfTwo(n) == n = 1 \/ (n > 1 /\ n % 2 = 0 /\ IsPowerOfTwo(n \div 2))

\* the fraction is a double
ExactDouble(frac) == IsPowerOfTwo(frac[2] \div Gcd(frac[1], frac[2]))

CanvasDims(videoWidth, videoHeight, cfg) ==
  LET exact == ScaledDims(videoWidth, videoHeight, cfg)
      h1 == <<videoHeight * cfg.maxWidth, videoWidth>>
      bothApplied == /\ videoWidth > cfg.maxWidth
                     /\ h1[1] > cfg.maxHeight * h1[2]
      wholeWidth == (cfg.maxHeight * videoWidth) % videoHeight = 0
  IN {exact} \cup
       (IF bothApplied /\ ~ExactDouble(h1) /\ wholeWidth
        THEN {<<exact[1] - 1, exact[2]>>} ELSE {})

\* intervalMs = 1000 / frameRate
IntervalMs(cfg) == 1000 \div cfg.frameRate

(***************************************************************************)
(* State.                                                                  *)
(***************************************************************************)
VARIABLES
  streamConfig,      \* the merged configuration of the hook instance
  isStreaming,       \* useState: isActive
  currentSource,     \* useState: activeSourceTag
  frameCount,        \* useState: framesSent
  framesSkipped,     \* useState
  changeDetected,    \* useState: lastEvaluationChanged
  intervalRef,       \* id of the timer held, or NULL
  videoRef,          \* id of the video element held, or NULL
  canvasRef,         \* id of the canvas held, or NULL
  previousFrameRef,  \* None, or Some(the baseline ImageData)
  lastFrameSentRef,  \* Date.now() of the last send, 0 after a reset
  videos,            \* the video elements created, by id
  timers,            \* the interval timer each element's handler created, if any
  renderedCounts,    \* <<frameCount, framesSkipped>> of the last render
  now,               \* Date.now()
  stream,            \* the media stream: "live", a scripted scene, or "ended"
  shown,             \* what the platform showed the tick of this step, if it is one
  sink,              \* the calls of onFrame: their number, the last two calls
  evals,             \* evaluations since startStreaming that reached the decision
  lastOp             \* the handler that ran last

\* The server's flashcard tools (server/src/tools): the two collections, the
\* module-level id of the card handed out last, and the calls in progress.
VARIABLES
  flashcards,          \* the _ids of the documents of collection "flashcards"
  previousFlashcardId, \* module-level: the hex string of an _id, or None
  sessions,            \* collection "sessions": currentFlashcardId by sessionId
  executions,          \* get_random_flashcard: the call of each session, if any
  outcome,             \* what the call that returned in this step returned
  served               \* the cards of the last two calls that returned found: true

\* The media-share hook of the client (client/src/hooks/useMediaShare.ts).
VARIABLES
  mediaState,     \* useState: screenStream and cameraStream, a stream id or NULL
  renderedMedia,  \* the state of the last render, which the callbacks captured
  mediaStreams,   \* the streams acquired, by id: their kind, whether tracks run
  acquiring,      \* calls awaiting getDisplayMedia / getUserMedia, by kind
  mediaOp         \* the handler of the hook that ran last

\* The realtime connection of the client (useWebSocket): the socket that
\* connect creates and the tool calls its onmessage handler relays.
VARIABLES
  socket,             \* readyState of ws: "connecting", "open" or "closed"
  toolCalls,          \* by call_id: the tool call message and how far its handler is
  sent,               \* the messages passed to ws.send, in order
  pendingAgentSwitch  \* useState: None, or Some(the agent to switch to)

hookVars == <<isStreaming, currentSource, frameCount, framesSkipped, changeDetected,
              intervalRef, videoRef, canvasRef, previousFrameRef, lastFrameSentRef>>
samplerVars == <<streamConfig, hookVars, videos, timers, renderedCounts, now, stream,
                 shown, sink, evals, lastOp>>
toolVars == <<flashcards, previousFlashcardId, sessions, executions, outcome, served>>
mediaVars == <<mediaState, renderedMedia, mediaStreams, acquiring, mediaOp>>
wsVars == <<socket, toolCalls, sent, pendingAgentSwitch>>
otherVars == <<toolVars, mediaVars, wsVars>>
vars == <<samplerVars, otherVars>>

SessionIds == {"s1", "s2"}

NoExecution == [pc |-> "idle", matchStage |-> NULL, flashcard |-> NULL]
NoOutcome == [sessionId |-> "", found |-> FALSE, flashcard |-> NULL]

MediaKinds == {"screen", "camera"}

NoMedia == [screen |-> NULL, camera |-> NULL]

\* the hook has rendered once and shares nothing
MediaInit ==
  /\ mediaState = NoMedia
  /\ renderedMedia = NoMedia
  /\ mediaStreams = <<>>
  /\ acquiring = [k \in MediaKinds |-> 0]
  /\ mediaOp = "init"

CallIds == 1..MaxToolCalls

NoToolCall == [pc |-> "none", name |-> "", result |-> "", relayed |-> FALSE,
               created |-> FALSE]

\* connect has created the socket, which is not open yet
WsInit ==
  /\ socket = "connecting"
  /\ toolCalls = [c \in CallIds |-> NoToolCall]
  /\ sent = <<>>
  /\ pendingAgentSwitch = None

\* the server has just started: no flashcards, no call in progress
ToolsInit ==
  /\ flashcards = {}
  /\ previousFlashcardId = None
  /\ sessions = [s \in SessionIds |-> NULL]
  /\ executions = [s \in SessionIds |-> NoExecution]
  /\ outcome = NoOutcome
  /\ served = <<NULL, NULL>>

Epoch == 5 * IntervalMs(DEFAULT_CONFIG)
MaxTime == Epoch + MaxSteps * IntervalMs(DEFAULT_CONFIG)

\* The input of a tick: the surface is "notReady", or there is "noContext", or
\* it is "ready" and shows a picture; "none" when the step is not a tick.
NoInput == [surface |-> "none", content |-> "", dims |-> <<0, 0>>]

Shown(haveEnoughData, ctx, content, dims) ==
  IF ~haveEnoughData THEN [NoInput EXCEPT !.surface = "notReady"]
  ELSE IF ~ctx THEN [NoInput EXCEPT !.surface = "noContext"]
  ELSE [surface |-> "ready", content |-> content, dims |-> dims]

NoSink == [count |-> 0, time |-> 0, session |-> NULL, prevTime |-> 0,
           prevSession |-> NULL]

HookInit ==
  /\ isStreaming = FALSE
  /\ currentSource = NoSource
  /\ frameCount = 0
  /\ framesSkipped = 0
  /\ changeDetected = FALSE
  /\ intervalRef = NULL
  /\ videoRef = NULL
  /\ canvasRef = NULL
  /\ previousFrameRef = None
  /\ lastFrameSentRef = 0
  /\ videos = <<>>
  /\ timers = <<>>
  /\ renderedCounts = <<0, 0>>
  /\ now = Epoch
  /\ shown = NoInput
  /\ sink = NoSink
  /\ evals = 0
  /\ lastOp = "init"
  /\ ToolsInit
  /\ MediaInit
  /\ WsInit

Init ==
  /\ streamConfig \in { MergeConfig(o) : o \in ConfigOverrides }
  /\ stream = "live"
  /\ HookInit

(***************************************************************************)
(* stopStreaming.  clearInterval cancels the timer; a firing of it that    *)
(* the platform had already queued (the timer was due) may still run.      *)
(* Assigning srcObject = null detaches the stream from the element.        *)
(***************************************************************************)
\* a stopStreaming that leaves the stream attached to the element
DetachVideo_Forgotten(vs, id) == vs

ClearInterval(tms, id) ==
  IF id = NULL THEN tms
  ELSE [tms EXCEPT ![id].state =
          IF @ = "live" /\ tms[id].due THEN "queued"
          ELSE IF @ = "live" THEN "cleared" ELSE @,
                   ![id].due = FALSE]

DetachVideo(vs, id) ==
  IF id = NULL THEN vs ELSE [vs EXCEPT ![id].srcObject = FALSE]

\* a stopStreaming that neither cancels nor forgets the timer it holds
StopEffect_KeepsTimer ==
  [ timers |-> timers,
    intervalRef |-> intervalRef,
    videos |-> DetachVideo(videos, videoRef),
    videoRef |-> NULL,
    canvasRef |-> NULL,
    previousFrameRef |-> None,
    lastFrameSentRef |-> 0,
    isStreaming |-> FALSE,
    currentSource |-> NoSource,
    changeDetected |-> FALSE ]

\* a stopStreaming that records the time of the stop as the last send
StopEffect_StampsTime ==
  [ timers |-> ClearInterval(timers, intervalRef),
    intervalRef |-> NULL,
    videos |-> DetachVideo(videos, videoRef),
    videoRef |-> NULL,
    canvasRef |-> NULL,
    previousFrameRef |-> None,
    lastFrameSentRef |-> now,
    isStreaming |-> FALSE,
    currentSource |-> NoSource,
    changeDetected |-> FALSE ]

\* the values stopStreaming leaves in what it writes
StopEffect ==
  [ timers |-> ClearInterval(timers, intervalRef),
    intervalRef |-> NULL,
    videos |-> DetachVideo(videos, videoRef),
    videoRef |-> NULL,
    canvasRef |-> NULL,
    previousFrameRef |-> None,
    lastFrameSentRef |-> 0,
    isStreaming |-> FALSE,
    currentSource |-> NoSource,
    changeDetected |-> FALSE ]

ApplyStop_ResetsCounters ==
  /\ timers' = StopEffect.timers
  /\ intervalRef' = StopEffect.intervalRef
  /\ videos' = StopEffect.videos
  /\ videoRef' = StopEffect.videoRef
  /\ canvasRef' = StopEffect.canvasRef
  /\ previousFrameRef' = StopEffect.previousFrameRef
  /\ lastFrameSentRef' = StopEffect.lastFrameSentRef
  /\ isStreaming' = StopEffect.isStreaming
  /\ currentSource' = StopEffect.currentSource
  /\ changeDetected' = StopEffect.changeDetected
  /\ frameCount' = 0
  /\ framesSkipped' = 0
  /\ UNCHANGED stream

\* a stopStreaming that stops the tracks of the stream, as the owner of the
\* stream does
ApplyStop_StopsTracks ==
  /\ timers' = StopEffect.timers
  /\ intervalRef' = StopEffect.intervalRef
  /\ videos' = StopEffect.videos
  /\ videoRef' = StopEffect.videoRef
  /\ canvasRef' = StopEffect.canvasRef
  /\ previousFrameRef' = StopEffect.previousFrameRef
  /\ lastFrameSentRef' = StopEffect.lastFrameSentRef
  /\ isStreaming' = StopEffect.isStreaming
  /\ currentSource' = StopEffect.currentSource
  /\ changeDetected' = StopEffect.changeDetected
  /\ UNCHANGED <<frameCount, framesSkipped>>
  /\ stream' = "ended"

ApplyStop ==
  /\ timers' = StopEffect.timers
  /\ intervalRef' = StopEffect.intervalRef
  /\ videos' = StopEffect.videos
  /\ videoRef' = StopEffect.videoRef
  /\ canvasRef' = StopEffect.canvasRef
  /\ previousFrameRef' = StopEffect.previousFrameRef
  /\ lastFrameSentRef' = StopEffect.lastFrameSentRef
  /\ isStreaming' = StopEffect.isStreaming
  /\ currentSource' = StopEffect.currentSource
  /\ changeDetected' = StopEffect.changeDetected
  /\ UNCHANGED <<frameCount, framesSkipped>>
  \* the tracks of the stream are not touched
  /\ UNCHANGED stream

stopStreaming ==
  /\ ApplyStop
  /\ lastOp' = "stop"
  /\ shown' = NoInput
  /\ UNCHANGED otherVars
  /\ UNCHANGED <<streamConfig, renderedCounts, now, sink, evals>>

(***************************************************************************)
(* The effect whose cleanup calls stopStreaming has stopStreaming as its   *)
(* dependency, and stopStreaming is a new callback in every render in      *)
(* which frameCount or framesSkipped has changed: React runs the cleanup   *)
(* when it commits such a render.                                          *)
(***************************************************************************)
EffectCleanup ==
  /\ renderedCounts # <<frameCount, framesSkipped>>
  /\ ApplyStop
  /\ renderedCounts' = <<frameCount, framesSkipped>>
  /\ lastOp' = "cleanup"
  /\ shown' = NoInput
  /\ UNCHANGED otherVars
  /\ UNCHANGED <<streamConfig, now, sink, evals>>

(***************************************************************************)
(* startStreaming(stream, source, onFrame).                                *)
(***************************************************************************)
NewVideo(source) == [srcObject |-> TRUE, metadata |-> "pending", source |-> source]

\* A timer is named by the element whose handler creates it: timers[v] is
\* "none" until the loadedmetadata handler of the element v has run.
NoTimer == [state |-> "none", due |-> FALSE]

\* a startStreaming that does not reset the counters
startStreaming_KeepsCounters(source) ==
  /\ Len(videos) < MaxStarts
  /\ timers' = Append(StopEffect.timers, NoTimer)
  /\ intervalRef' = StopEffect.intervalRef
  /\ isStreaming' = StopEffect.isStreaming
  /\ currentSource' = StopEffect.currentSource
  /\ changeDetected' = StopEffect.changeDetected
  /\ videos' = Append(StopEffect.videos, NewVideo(source))
  /\ videoRef' = Len(videos) + 1
  /\ canvasRef' = Len(videos) + 1
  /\ previousFrameRef' = None
  /\ lastFrameSentRef' = 0
  /\ evals' = 0
  /\ lastOp' = "start"
  /\ shown' = NoInput
  /\ UNCHANGED otherVars
  /\ UNCHANGED <<frameCount, framesSkipped>>
  /\ UNCHANGED <<streamConfig, stream, renderedCounts, now, sink>>

startStreaming(source) ==
  /\ Len(videos) < MaxStarts
  /\ timers' = Append(StopEffect.timers, NoTimer)
  /\ intervalRef' = StopEffect.intervalRef
  /\ isStreaming' = StopEffect.isStreaming
  /\ currentSource' = StopEffect.currentSource
  /\ changeDetected' = StopEffect.changeDetected
  /\ videos' = Append(StopEffect.videos, NewVideo(source))
  /\ videoRef' = Len(videos) + 1
  /\ canvasRef' = Len(videos) + 1
  /\ frameCount' = 0
  /\ framesSkipped' = 0
  /\ previousFrameRef' = None
  /\ lastFrameSentRef' = 0
  /\ evals' = 0
  /\ lastOp' = "start"
  /\ shown' = NoInput
  /\ UNCHANGED otherVars
  /\ UNCHANGED <<streamConfig, stream, renderedCounts, now, sink>>

(***************************************************************************)
(* video.onloadedmetadata of the element v: the handler is never removed,  *)
(* so it runs once for every element created, whether or not that element  *)
(* is still the one of videoRef.                                           *)
(***************************************************************************)
NewTimer == [state |-> "live", due |-> FALSE]

onloadedmetadata(v) ==
  /\ videos[v].metadata = "pending"
  /\ videos' = [videos EXCEPT ![v].metadata = "fired"]
  /\ timers' = [timers EXCEPT ![v] = NewTimer]
  /\ intervalRef' = v
  /\ isStreaming' = TRUE
  /\ currentSource' = videos[v].source
  /\ lastOp' = "metadata"
  /\ shown' = NoInput
  /\ UNCHANGED otherVars
  /\ UNCHANGED <<streamConfig, stream, frameCount, framesSkipped, changeDetected, videoRef,
                 canvasRef, previousFrameRef, lastFrameSentRef, renderedCounts, now,
                 sink, evals>>

(***************************************************************************)
(* captureAndAnalyzeFrame(video, canvas, source, onFrame), the callback of *)
(* the interval timer t, which closes over the element t.  Its inputs are  *)
(* what the platform shows it: does the element have enough data, is there *)
(* a drawing context, and the picture and the size of the video at this    *)
(* moment.  An element whose srcObject has been set to null has no data.   *)
(***************************************************************************)
\* a decision without the "always send first frame" branch
Decide_NoFirstFrame(previousFrame, timeSinceLastFrame, currentFrame, cfg) ==
  IF previousFrame = None THEN "unchanged"
  ELSE IF timeSinceLastFrame < cfg.minFrameInterval THEN "rateLimited"
  ELSE IF FracGeq(calculateFrameDifference(currentFrame, previousFrame[1]),
                  cfg.changeThreshold)
       THEN "changed" ELSE "unchanged"

\* a decision without the minimum interval between frames
Decide_NoRateFloor(previousFrame, timeSinceLastFrame, currentFrame, cfg) ==
  IF previousFrame = None THEN "first"
  ELSE IF FracGeq(calculateFrameDifference(currentFrame, previousFrame[1]),
                  cfg.changeThreshold)
       THEN "changed" ELSE "unchanged"

\* a decision that sends only a change above the threshold
Decide_StrictlyAbove(previousFrame, timeSinceLastFrame, currentFrame, cfg) ==
  IF previousFrame = None THEN "first"
  ELSE IF timeSinceLastFrame < cfg.minFrameInterval THEN "rateLimited"
  ELSE IF ~FracGeq(cfg.changeThreshold,
                   calculateFrameDifference(currentFrame, previousFrame[1]))
       THEN "changed" ELSE "unchanged"

Decide(previousFrame, timeSinceLastFrame, currentFrame, cfg) ==
  IF previousFrame = None THEN "first"
  ELSE IF timeSinceLastFrame < cfg.minFrameInterval THEN "rateLimited"
  ELSE IF FracGeq(calculateFrameDifference(currentFrame, previousFrame[1]),
                  cfg.changeThreshold)
       THEN "changed" ELSE "unchanged"

\* ctx.getImageData(0, 0, width, height) of the canvas the picture was drawn on
CurrentFrame(content, canvasDims) ==
  [width |-> canvasDims[1], height |-> canvasDims[2], content |-> content]

\* a send that keeps the baseline it compared with
SendFrame_KeepsBaseline(t, currentFrame) ==
  /\ sink' = [count |-> sink.count + 1, time |-> now, session |-> t,
              prevTime |-> sink.time, prevSession |-> sink.session]
  /\ frameCount' = frameCount + 1
  /\ lastFrameSentRef' = now
  /\ previousFrameRef' =
       IF previousFrameRef = None THEN Some(currentFrame) ELSE previousFrameRef

\* a send that hands the frame to the sink twice
SendFrame_Twice(t, currentFrame) ==
  /\ sink' = [count |-> sink.count + 2, time |-> now, session |-> t,
              prevTime |-> now, prevSession |-> t]
  /\ frameCount' = frameCount + 1
  /\ lastFrameSentRef' = now
  /\ previousFrameRef' = Some(currentFrame)

SendFrame(t, currentFrame) ==
  /\ sink' = [count |-> sink.count + 1, time |-> now, session |-> t,
              prevTime |-> sink.time, prevSession |-> sink.session]
  /\ frameCount' = frameCount + 1
  /\ lastFrameSentRef' = now
  /\ previousFrameRef' = Some(currentFrame)

\* a skip that returns before it counts
SkipFrame_NotCounted ==
  /\ changeDetected' = FALSE
  /\ UNCHANGED <<frameCount, framesSkipped, previousFrameRef, lastFrameSentRef, sink>>

\* a skip that leaves changeDetected as the evaluation before left it
SkipFrame_KeepsFlag ==
  /\ framesSkipped' = framesSkipped + 1
  /\ UNCHANGED <<changeDetected, frameCount, previousFrameRef, lastFrameSentRef, sink>>

\* both skips: setFramesSkipped(prev + 1), and changeDetected is or becomes false
SkipFrame ==
  /\ framesSkipped' = framesSkipped + 1
  /\ changeDetected' = FALSE
  /\ UNCHANGED <<frameCount, previousFrameRef, lastFrameSentRef, sink>>

\* a tick that counts the frame it could not read as skipped
Abandoned_CountsSkip ==
  /\ framesSkipped' = framesSkipped + 1
  /\ UNCHANGED <<frameCount, changeDetected, previousFrameRef, lastFrameSentRef,
                 sink, evals>>

\* the tick returns, or throws, before it has written anything
Abandoned ==
  UNCHANGED <<frameCount, framesSkipped, changeDetected, previousFrameRef,
              lastFrameSentRef, sink, evals>>

\* a tick that makes every frame it evaluates the baseline, sent or not
captureAndAnalyzeFrame_BaselineFollows(t, haveEnoughData, ctx, content, dims) ==
  IF ~haveEnoughData \/ ~ctx
  THEN Abandoned
  ELSE \E canvasDims \in CanvasDims(dims[1], dims[2], streamConfig) :
         IF canvasDims[1] = 0 \/ canvasDims[2] = 0
         THEN Abandoned
         ELSE LET currentFrame == CurrentFrame(content, canvasDims)
                  decision == Decide(previousFrameRef, now - lastFrameSentRef,
                                     currentFrame, streamConfig)
              IN /\ evals' = evals + 1
                 /\ CASE decision = "first" ->
                           /\ SendFrame(t, currentFrame)
                           /\ UNCHANGED <<framesSkipped, changeDetected>>
                      [] decision = "changed" ->
                           /\ changeDetected' = TRUE
                           /\ SendFrame(t, currentFrame)
                           /\ UNCHANGED framesSkipped
                      [] OTHER ->
                           /\ framesSkipped' = framesSkipped + 1
                           /\ changeDetected' = FALSE
                           /\ previousFrameRef' = Some(currentFrame)
                           /\ UNCHANGED <<frameCount, lastFrameSentRef, sink>>

captureAndAnalyzeFrame(t, haveEnoughData, ctx, content, dims) ==
  IF ~haveEnoughData \/ ~ctx
  THEN Abandoned
  ELSE \E canvasDims \in CanvasDims(dims[1], dims[2], streamConfig) :
         IF canvasDims[1] = 0 \/ canvasDims[2] = 0
         THEN \* getImageData throws IndexSizeError for an empty rectangle
              Abandoned
         ELSE LET currentFrame == CurrentFrame(content, canvasDims)
                  decision == Decide(previousFrameRef, now - lastFrameSentRef,
                                     currentFrame, streamConfig)
              IN /\ evals' = evals + 1
                 /\ CASE decision = "first" ->
                           /\ SendFrame(t, currentFrame)
                           /\ UNCHANGED <<framesSkipped, changeDetected>>
                      [] decision = "rateLimited" -> SkipFrame
                      [] decision = "changed" ->
                           /\ changeDetected' = TRUE
                           /\ SendFrame(t, currentFrame)
                           /\ UNCHANGED framesSkipped
                      [] OTHER -> SkipFrame

\* what the platform can show the callback of timer t
Surfaces(t) ==
  { <<hed, ctx>> \in BOOLEAN \X BOOLEAN :
      hed => videos[t].srcObject }

\* the timer t fires on schedule
Tick(t, haveEnoughData, ctx, content, dims) ==
  /\ timers[t].state = "live"
  /\ timers[t].due
  /\ captureAndAnalyzeFrame(t, haveEnoughData, ctx, content, dims)
  /\ timers' = [timers EXCEPT ![t].due = FALSE]
  /\ lastOp' = "tick"
  /\ shown' = Shown(haveEnoughData, ctx, content, dims)
  /\ UNCHANGED otherVars
  /\ UNCHANGED <<streamConfig, stream, isStreaming, currentSource, intervalRef, videoRef,
                 canvasRef, videos, renderedCounts, now>>

\* the firing of t that was queued when clearInterval cancelled t
QueuedTick(t, haveEnoughData, ctx, content, dims) ==
  /\ timers[t].state = "queued"
  /\ captureAndAnalyzeFrame(t, haveEnoughData, ctx, content, dims)
  /\ timers' = [timers EXCEPT ![t].state = "cleared"]
  /\ lastOp' = "queuedTick"
  /\ shown' = Shown(haveEnoughData, ctx, content, dims)
  /\ UNCHANGED otherVars
  /\ UNCHANGED <<streamConfig, stream, isStreaming, currentSource, intervalRef, videoRef,
                 canvasRef, videos, renderedCounts, now>>

\* One check interval passes and every live timer becomes due; a timer that is
\* due fires before the next interval passes.
Advance ==
  /\ now < MaxTime
  /\ \A t \in DOMAIN timers : ~timers[t].due
  /\ now' = now + IntervalMs(streamConfig)
  /\ timers' = [t \in DOMAIN timers |->
                  [timers[t] EXCEPT !.due = (timers[t].state = "live")]]
  /\ shown' = NoInput
  /\ UNCHANGED otherVars
  /\ UNCHANGED <<streamConfig, stream, hookVars, videos, renderedCounts, sink, evals, lastOp>>

Next ==
  \/ \E source \in Sources :
       \* the two tags are interchangeable: the first session's is "screen"
       /\ videos = <<>> => source = "screen"
       /\ startStreaming(source)
  \/ stopStreaming
  \/ EffectCleanup
  \/ \E v \in DOMAIN videos : onloadedmetadata(v)
  \/ \E t \in DOMAIN timers : \E s \in Surfaces(t) : \E p \in Pictures :
       Tick(t, s[1], s[2], p[1], p[2])
  \/ \E t \in DOMAIN timers : \E s \in Surfaces(t) : \E p \in Pictures :
       QueuedTick(t, s[1], s[2], p[1], p[2])
  \/ Advance

Spec == Init /\ [][Next]_vars

(***************************************************************************)
(* The video track of the media stream ends (the user stops the share, the *)
(* device is unplugged).  The hook has registered no listener on the       *)
(* stream or its tracks, so no handler of it runs.                         *)
(***************************************************************************)
TrackEnded ==
  /\ isStreaming
  /\ stream = "live"
  /\ stream' = "ended"
  /\ shown' = NoInput
  /\ UNCHANGED otherVars
  /\ lastOp' = "ended"
  /\ UNCHANGED <<streamConfig, hookVars, videos, timers, renderedCounts, now, sink, evals>>

\* the sampler under the default configuration, on a stream that can end
EndInit ==
  /\ streamConfig = DEFAULT_CONFIG
  /\ stream = "live"
  /\ HookInit

EndNext == Next \/ TrackEnded

EndSpec == EndInit /\ [][EndNext]_vars

(***************************************************************************)
(* One session on a stream whose frames have few pixels, among them pixel  *)
(* counts that are not multiples of the sample rate, under change          *)
(* thresholds from 0 to 1.                                                 *)
(***************************************************************************)
FrameDims == {<<4, 2>>, <<3, 2>>, <<1, 1>>}
FramePictures == Contents \X FrameDims

FrameOverrides ==
  { [changeThreshold |-> th, minFrameInterval |-> 400] :
      th \in {<<0, 1>>, <<5, 100>>, <<1, 2>>, <<1, 1>>} }

FrameInit ==
  /\ streamConfig \in { MergeConfig(o) : o \in FrameOverrides }
  /\ stream = "live"
  /\ HookInit

SessionNext(pictures) ==
  \/ videos = <<>> /\ startStreaming("screen")
  \/ EffectCleanup
  \/ \E v \in DOMAIN videos : onloadedmetadata(v)
  \/ \E t \in DOMAIN timers : \E s \in Surfaces(t) : \E p \in pictures :
       Tick(t, s[1], s[2], p[1], p[2])
  \/ \E t \in DOMAIN timers : \E s \in Surfaces(t) : \E p \in pictures :
       QueuedTick(t, s[1], s[2], p[1], p[2])
  \/ Advance

FrameNext == SessionNext(FramePictures)

FrameSpec == FrameInit /\ [][FrameNext]_vars

(***************************************************************************)
(* One session on a stream whose video is larger than the frame the        *)
(* configuration allows: small maxWidth and maxHeight, and every video     *)
(* size up to MaxVideoWidth by MaxVideoHeight.                             *)
(***************************************************************************)
ScalePictures == {"A"} \X ((1..MaxVideoWidth) \X (1..MaxVideoHeight))

ScaleOverrides ==
  { [maxWidth |-> mw, maxHeight |-> mh, changeThreshold |-> th,
     minFrameInterval |-> 400] :
      mw \in {3, 4}, mh \in {2, 3}, th \in {<<5, 100>>, <<1, 1>>} }

ScaleInit ==
  /\ streamConfig \in { MergeConfig(o) : o \in ScaleOverrides }
  /\ stream = "live"
  /\ HookInit

ScaleNext == SessionNext(ScalePictures)

ScaleSpec == ScaleInit /\ [][ScaleNext]_vars

(***************************************************************************)
(* The two scenes of the sampler's test scenarios, under the default       *)
(* configuration: one session, started once; the stream is ready at every  *)
(* tick and shows the same picture ("still"), or the same picture except   *)
(* at the sixth evaluation, where half of the sampled pixels differ        *)
(* ("sixthMoves").  The clock starts when the session's timer is created,  *)
(* and the scene is over after ten check intervals.                        *)
(***************************************************************************)
SceneEnd == Epoch + 10 * IntervalMs(DEFAULT_CONFIG)

ScenePicture ==
  IF stream = "sixthMoves" /\ evals + 1 = 6
  THEN <<"B", <<4, 2>>>> ELSE <<"A", <<4, 2>>>>

SceneInit ==
  /\ streamConfig = DEFAULT_CONFIG
  /\ stream \in {"still", "sixthMoves"}
  /\ HookInit

SceneAdvance ==
  /\ \E t \in DOMAIN timers : timers[t].state # "none"
  /\ now < SceneEnd
  /\ \A t \in DOMAIN timers : ~timers[t].due
  /\ now' = now + IntervalMs(streamConfig)
  /\ timers' = [t \in DOMAIN timers |->
                  [timers[t] EXCEPT !.due = (timers[t].state = "live")]]
  /\ shown' = NoInput
  /\ UNCHANGED otherVars
  /\ UNCHANGED <<streamConfig, stream, hookVars, videos, renderedCounts, sink, evals,
                 lastOp>>

SceneNext ==
  \/ videos = <<>> /\ startStreaming("screen")
  \/ EffectCleanup
  \/ \E v \in DOMAIN videos : onloadedmetadata(v)
  \/ \E t \in DOMAIN timers :
       Tick(t, videos[t].srcObject, TRUE, ScenePicture[1],
            ScenePicture[2])
  \/ \E t \in DOMAIN timers :
       QueuedTick(t, videos[t].srcObject, TRUE, ScenePicture[1],
                  ScenePicture[2])
  \/ SceneAdvance

SceneSpec == SceneInit /\ [][SceneNext]_vars

SceneOver == now = SceneEnd /\ \A t \in DOMAIN timers : ~timers[t].due

(***************************************************************************)
(* Properties.                                                             *)
(***************************************************************************)

\* the step is a call of stopStreaming by the caller, which has returned
StopReturned == lastOp' = "stop" /\ now' = now

\* C1, as stated: framesSent + framesSkipped equals the number of evaluations
\* (not-ready ticks excluded) after the first one of the session.
C1_CountersExcludeFirst ==
  frameCount + framesSkipped = (IF evals = 0 THEN 0 ELSE evals - 1)

\* C1, amended: framesSent + framesSkipped equals the number of evaluations of
\* the session that reached the decision, the first one included.
C1_CountersMatchEvaluations == frameCount + framesSkipped = evals

C1_Witness == frameCount >= 2 /\ framesSkipped >= 1 /\ evals = 3

\* C2: an evaluation that finds no baseline sends its frame: the sink is called
\* once and the frame becomes the baseline, whatever the configuration and
\* however recent the last send of an earlier session.
C2_FirstEvaluationSends ==
  [][(evals' = evals + 1 /\ previousFrameRef = None)
       => /\ sink'.count = sink.count + 1
          /\ sink'.time = now
          /\ frameCount' = frameCount + 1
          /\ previousFrameRef' # None]_vars

C2_Witness ==
  /\ lastOp = "tick"
  /\ frameCount = 1
  /\ sink.count = 2
  /\ sink.session # sink.prevSession
  /\ sink.time - sink.prevTime < streamConfig.minFrameInterval
  /\ streamConfig.changeThreshold = <<1, 1>>

\* C3: two consecutive calls of the sink in one session are at least
\* minFrameInterval ms apart: no evaluation earlier than that after a send sends.
C3_SendsSpaced ==
  (sink.count >= 2 /\ sink.session = sink.prevSession)
    => sink.time - sink.prevTime >= streamConfig.minFrameInterval

C3_Witness ==
  /\ lastOp = "tick"
  /\ sink.count = 2
  /\ sink.session = sink.prevSession
  /\ framesSkipped >= 1
  /\ streamConfig.minFrameInterval > 0

\* C4: after ten identical frames, one per tick, under the default
\* configuration: one frame sent, nine skipped.
C4_StillScene ==
  (stream = "still" /\ SceneOver) => (frameCount = 1 /\ framesSkipped = 9)

\* C5: when only the sixth of ten frames differs, by half of the sampled pixels:
\* frames are sent at the first and the sixth evaluation, the others skipped.
C5_SixthMoves ==
  (stream = "sixthMoves" /\ SceneOver)
    => /\ frameCount = 2
       /\ framesSkipped = 8
       /\ sink.count = 2
       /\ sink.prevTime = Epoch + IntervalMs(DEFAULT_CONFIG)
       /\ sink.time = Epoch + 6 * IntervalMs(DEFAULT_CONFIG)

\* C6: when stopStreaming returns, the timer it held is cancelled and no timer
\* is held, the baseline, the canvas and the element are released, and
\* isStreaming, currentSource and changeDetected are false, null and false.
C6_StopReleases ==
  [][StopReturned
       => /\ intervalRef' = NULL
          /\ intervalRef # NULL => timers'[intervalRef].state # "live"
          /\ previousFrameRef' = None
          /\ canvasRef' = NULL
          /\ videoRef' = NULL
          /\ videoRef # NULL => ~videos'[videoRef].srcObject
          /\ isStreaming' = FALSE
          /\ currentSource' = NoSource
          /\ changeDetected' = FALSE]_vars

\* stopStreaming has ended a session that had sent frames, before any cleanup
C6_Witness ==
  /\ lastOp = "stop"
  /\ frameCount >= 1
  /\ renderedCounts = <<0, 0>>
  /\ Len(timers) = 1
  /\ timers[1].state \in {"cleared", "queued"}

NoSessionHeld ==
  intervalRef = NULL /\ videoRef = NULL /\ canvasRef = NULL /\ ~isStreaming

C8_StopIdempotent ==
  [][StopReturned
       => /\ NoSessionHeld'
          /\ NoSessionHeld
               => UNCHANGED <<hookVars, videos, timers, renderedCounts, sink, evals>>]_vars

\* stopStreaming was called though no session was ever started
C8_Witness == lastOp = "stop" /\ videos = <<>>

\* C9: every live timer is the one intervalRef holds, so at most one is live.
C9_OneReferencedTimer ==
  \A t \in DOMAIN timers : timers[t].state = "live" => t = intervalRef

\* C10: a firing of the timer that was queued when stopStreaming cancelled it
\* calls no sink and changes neither counter nor the baseline.
C10_QueuedTickInert ==
  [][lastOp' = "queuedTick"
       => /\ sink' = sink
          /\ frameCount' = frameCount
          /\ framesSkipped' = framesSkipped
          /\ previousFrameRef' = previousFrameRef]_vars

\* the queued firing ran after a stopStreaming of the caller: there was one
\* session, and no cleanup, since the counters never changed
C10_Witness ==
  /\ lastOp = "queuedTick"
  /\ Len(videos) = 1
  /\ renderedCounts = <<0, 0>>
  /\ frameCount = 0
  /\ framesSkipped = 0

(***************************************************************************)
(* One session checked ten times a second with at least 200 ms between two *)
(* sends: every send is followed by one rate-limited tick.                 *)
(***************************************************************************)
RateOverride == [frameRate |-> 10, minFrameInterval |-> 200]

RateInit ==
  /\ streamConfig = MergeConfig(RateOverride)
  /\ stream = "live"
  /\ HookInit

RateNext == SessionNext(Pictures)

RateSpec == RateInit /\ [][RateNext]_vars

(***************************************************************************)
(* One session on a stream whose pictures differ from the first one by     *)
(* exactly the delta, by one more in a single colour channel, in the alpha *)
(* channel only, or in pixels that are not sampled.                        *)
(***************************************************************************)
DeltaPictures == {"A", "P", "R", "U", "T", "D"} \X {<<4, 2>>}

DeltaInit ==
  /\ streamConfig = MergeConfig([minFrameInterval |-> 400])
  /\ stream = "live"
  /\ HookInit

DeltaNext == SessionNext(DeltaPictures)

DeltaSpec == DeltaInit /\ [][DeltaNext]_vars

(***************************************************************************)
(* Properties of change detection and of the decision of a tick.           *)
(***************************************************************************)

\* the step is a tick that went through change detection: it drew a frame, found
\* a baseline and found the last send at least minFrameInterval ago
Detecting ==
  /\ evals' = evals + 1
  /\ previousFrameRef # None
  /\ now - lastFrameSentRef >= streamConfig.minFrameInterval

\* the frame the tick of this step drew, when the video is not scaled
TickFrame == CurrentFrame(shown'.content, shown'.dims)

\* the step called the sink once and made the frame f the baseline
SentNow(f) ==
  /\ sink'.count = sink.count + 1
  /\ sink'.time = now
  /\ frameCount' = frameCount + 1
  /\ framesSkipped' = framesSkipped
  /\ lastFrameSentRef' = now
  /\ previousFrameRef' = Some(f)

\* the step counted a skip and did not call the sink
SkippedNow ==
  /\ sink' = sink
  /\ framesSkipped' = framesSkipped + 1
  /\ frameCount' = frameCount
  /\ changeDetected' = FALSE
  /\ previousFrameRef' = previousFrameRef
  /\ lastFrameSentRef' = lastFrameSentRef

SameSize(f, g) == f.width = g.width /\ f.height = g.height

\* the pixels change detection is meant to look at: every 4th, in row order
SampledPixels(f) == { q \in 0..(f.width * f.height - 1) : q % sampleRate = 0 }

\* the pixel q of f and g differs by more than the delta in some colour channel
Differs(f, g, q) ==
  \E c \in 0..2 : Abs(Byte(f, 4 * q + c) - Byte(g, 4 * q + c)) > channelDelta

\* the pixel q of f and g is the same in every colour channel
Same(f, g, q) == \A c \in 0..2 : Byte(f, 4 * q + c) = Byte(g, 4 * q + c)

\* C11: when every sampled pixel of a frame of the baseline's size differs from
\* the baseline by more than the delta, the change fraction is exactly 1 and the
\* frame is sent, whatever the number of pixels.
C11_AllChangedIsOne ==
  [][(/\ Detecting
      /\ SameSize(TickFrame, previousFrameRef[1])
      /\ \A q \in SampledPixels(TickFrame) : Differs(TickFrame, previousFrameRef[1], q))
       => LET difference == calculateFrameDifference(TickFrame, previousFrameRef[1])
          IN difference[1] = difference[2] /\ SentNow(TickFrame)]_vars

\* C12: the change fraction of every two frames that are compared is in [0, 1]:
\* the pixels counted as different are never more than the sampled-pixel count.
C12_FractionInUnitInterval ==
  [][Detecting
       => LET difference == calculateFrameDifference(TickFrame, previousFrameRef[1])
          IN 0 <= difference[1] /\ difference[1] <= difference[2]]_vars

\* C13, as stated: a frame that equals the baseline in every sampled pixel has
\* change fraction 0 and is skipped, for every changeThreshold from 0 to 1.
C13_UnchangedSkipped ==
  [][(/\ Detecting
      /\ SameSize(TickFrame, previousFrameRef[1])
      /\ \A q \in SampledPixels(TickFrame) : Same(TickFrame, previousFrameRef[1], q))
       => /\ calculateFrameDifference(TickFrame, previousFrameRef[1])[1] = 0
          /\ SkippedNow]_vars

\* C13, amended: such a frame has change fraction 0; it is skipped for every
\* changeThreshold above 0, and sent when changeThreshold is 0.
C13_UnchangedSkippedAboveZero ==
  [][(/\ Detecting
      /\ SameSize(TickFrame, previousFrameRef[1])
      /\ \A q \in SampledPixels(TickFrame) : Same(TickFrame, previousFrameRef[1], q))
       => /\ calculateFrameDifference(TickFrame, previousFrameRef[1])[1] = 0
          /\ IF streamConfig.changeThreshold[1] > 0
             THEN SkippedNow ELSE SentNow(TickFrame)]_vars

\* the third evaluation found, 400 ms after the baseline "A" was sent, a frame
\* that differs from it only in pixels that are not sampled, and skipped it
C13_Witness ==
  /\ lastOp = "tick"
  /\ evals = 3
  /\ frameCount = 1
  /\ framesSkipped = 2
  /\ shown = [surface |-> "ready", content |-> "D", dims |-> <<4, 2>>]
  /\ previousFrameRef = Some(CurrentFrame("A", <<4, 2>>))
  /\ now - lastFrameSentRef >= streamConfig.minFrameInterval
  /\ streamConfig.changeThreshold = DEFAULT_CONFIG.changeThreshold

\* the sizes the frame the tick of this step drew can have, when the video is scaled
TickDims == CanvasDims(shown'.dims[1], shown'.dims[2], streamConfig)

\* C14: a frame whose width or height is not the baseline's has change fraction
\* 1, and a tick past the rate floor sends it, whatever the pixels and the
\* threshold.
C14_SizeChangeSends ==
  [][(/\ Detecting
      /\ \A d \in TickDims :
           ~SameSize(CurrentFrame(shown'.content, d), previousFrameRef[1]))
       => \E d \in TickDims :
            LET f == CurrentFrame(shown'.content, d)
            IN /\ calculateFrameDifference(f, previousFrameRef[1]) = <<1, 1>>
               /\ SentNow(f)
               /\ changeDetected']_vars

\* a second frame was sent under changeThreshold 1; every picture of the stream
\* is "A", so the frame had the pixels of the baseline but not its size
C14_Witness ==
  /\ lastOp = "tick"
  /\ shown.surface = "ready"
  /\ changeDetected
  /\ frameCount = 2
  /\ lastFrameSentRef = now
  /\ streamConfig.changeThreshold = <<1, 1>>

\* C15: a frame that is sent is at most maxWidth wide and maxHeight high, and
\* it is within one pixel, in width and in height, of a rectangle that has
\* exactly the aspect ratio of the video.
C15_FrameWithinBounds ==
  [][sink'.count = sink.count + 1
       => LET f == previousFrameRef'[1]
              videoWidth == shown'.dims[1]
              videoHeight == shown'.dims[2]
          IN /\ f.width <= streamConfig.maxWidth
             /\ f.height <= streamConfig.maxHeight
             /\ (f.width - 1) * videoHeight <= (f.height + 1) * videoWidth
             /\ (f.height - 1) * videoWidth <= (f.width + 1) * videoHeight]_vars

\* a 5 by 3 video was sent as a 3 by 2 frame: both constraints applied, and the
\* width 10/3 was truncated
C15_Witness ==
  /\ lastOp = "tick"
  /\ streamConfig.maxWidth = 4
  /\ streamConfig.maxHeight = 2
  /\ shown = [surface |-> "ready", content |-> "A", dims |-> <<5, 3>>]
  /\ lastFrameSentRef = now
  /\ previousFrameRef = Some(CurrentFrame("A", <<3, 2>>))

\* C16: frames reach the sink in the order of their capture, one at a time: a
\* step calls the sink at most once, only a tick that drew a frame calls it, it
\* calls it with the frame it captured at that instant, and that instant is not
\* before the capture of the frame delivered before.
C16_InOrderOneAtATime ==
  [][/\ sink'.count \in {sink.count, sink.count + 1}
     /\ sink' # sink
          => /\ lastOp' \in {"tick", "queuedTick"}
             /\ shown'.surface = "ready"
             /\ now' = now
             /\ sink'.time = now
             /\ sink'.prevTime = sink.time
             /\ sink'.time >= sink.time]_vars

\* two frames were delivered, the second captured after the first, while a
\* second timer, of a superseded element, was live
C16_Witness ==
  /\ lastOp = "tick"
  /\ sink.count = 2
  /\ sink.time = now
  /\ sink.prevTime < sink.time
  /\ \E t \in DOMAIN timers : t # sink.session /\ timers[t].state = "live"

\* C17: when the video track of the stream has ended, the session is over: a
\* timer that fires after that finds isStreaming false, no timer held and no
\* baseline, though the caller has not called stopStreaming.
C17_EndOfStreamEndsSession ==
  (stream = "ended" /\ lastOp = "tick")
    => (~isStreaming /\ intervalRef = NULL /\ previousFrameRef = None)

\* C18: stopStreaming, whether the caller, the effect cleanup or startStreaming
\* runs it, leaves the tracks of the stream as they are; what it drops is the
\* reference the element it holds has to the stream.
C18_StopLeavesStream ==
  [][(lastOp' \in {"stop", "cleanup", "start"} /\ now' = now)
       => /\ stream' = stream
          /\ videoRef # NULL => ~videos'[videoRef].srcObject]_vars

\* the caller stopped the second session, which was active, and the stream is
\* still live
C18_Witness ==
  /\ lastOp = "stop"
  /\ stream = "live"
  /\ Len(videos) = 2
  /\ ~videos[2].srcObject
  /\ timers[2].state \in {"cleared", "queued"}

\* C19: a tick that finds the surface not ready, or no drawing context, changes
\* nothing: counters, changeDetected, baseline, last-send time and sink are as
\* before, and the session and its timer stay as they were for the next tick.
C19_NotReadyTickInert ==
  [][(lastOp' = "tick" /\ shown'.surface \in {"notReady", "noContext"})
       => /\ UNCHANGED <<hookVars, sink, evals, videos>>
          /\ \A t \in DOMAIN timers : timers'[t].state = timers[t].state]_vars

\* a session that has a baseline had a tick without a drawing context
C19_Witness ==
  /\ lastOp = "tick"
  /\ shown.surface = "noContext"
  /\ isStreaming
  /\ previousFrameRef # None
  /\ frameCount = 1
  /\ timers[intervalRef].state = "live"

\* C20: a tick with a baseline, at least minFrameInterval after the last send,
\* sends the frame if and only if its change fraction is at least
\* changeThreshold; otherwise it adds one to framesSkipped and calls no sink.
C20_SendsIffAtThreshold ==
  [][Detecting
       => IF FracGeq(calculateFrameDifference(TickFrame, previousFrameRef[1]),
                     streamConfig.changeThreshold)
          THEN SentNow(TickFrame) /\ changeDetected'
          ELSE SkippedNow]_vars

\* exactly minFrameInterval after the baseline "A" was sent, a tick found "B",
\* which differs from it in half of the sampled pixels, under changeThreshold 1,
\* and skipped it
C20_Witness ==
  /\ lastOp = "tick"
  /\ shown = [surface |-> "ready", content |-> "B", dims |-> <<4, 2>>]
  /\ previousFrameRef = Some(CurrentFrame("A", <<4, 2>>))
  /\ now - lastFrameSentRef = streamConfig.minFrameInterval
  /\ streamConfig.changeThreshold = <<1, 1>>
  /\ framesSkipped = 2
  /\ frameCount = 1

\* the step is a tick that drew a frame and found a baseline sent less than
\* minFrameInterval ago
RateLimited ==
  /\ evals' = evals + 1
  /\ previousFrameRef # None
  /\ now - lastFrameSentRef < streamConfig.minFrameInterval

\* C21, as stated: a rate-limited tick adds one to framesSkipped, leaves the
\* baseline, the last-send time and frameCount as they are, and does not write
\* changeDetected, which is false.
C21_RateLimitedLeavesFlag ==
  [][RateLimited => (SkippedNow /\ changeDetected' = changeDetected)]_vars

\* C21, amended: such a tick sets changeDetected to false, also when the
\* evaluation before had set it to true; whatever the frame shows, it is
\* skipped, counted once, and nothing else changes.
C21_RateLimitedClearsFlag ==
  [][RateLimited => SkippedNow]_vars

\* the tick right after the second send, which was a send for a change, found
\* a frame of another size than the baseline and skipped it
C21_Witness ==
  /\ lastOp = "tick"
  /\ shown.surface = "ready"
  /\ frameCount = 2
  /\ framesSkipped >= 1
  /\ now - lastFrameSentRef = IntervalMs(streamConfig)
  /\ now - lastFrameSentRef < streamConfig.minFrameInterval
  /\ shown.dims # <<previousFrameRef[1].width, previousFrameRef[1].height>>
  /\ ~changeDetected

\* C22: a step that calls the sink calls it once, adds one to frameCount, makes
\* the frame it drew the baseline and records the time; no other step changes
\* frameCount, the baseline or the last-send time, except that stopStreaming
\* clears the last two and startStreaming all three.  So frameCount counts the
\* sink calls since startStreaming, and a baseline, when there is one, is the
\* frame of the latest sink call, made by the timer of the element held.
C22_SendIsOneStep ==
  [][/\ sink' # sink
          => /\ sink'.count = sink.count + 1
             /\ sink'.time = now
             /\ frameCount' = frameCount + 1
             /\ lastFrameSentRef' = now
             /\ previousFrameRef' \in
                  { Some(CurrentFrame(shown'.content, d)) : d \in TickDims }
     /\ sink' = sink
          => /\ frameCount' = frameCount \/ (lastOp' = "start" /\ frameCount' = 0)
             /\ previousFrameRef' \in {previousFrameRef, None}
             /\ lastFrameSentRef' \in {lastFrameSentRef, 0}
     /\ previousFrameRef' # None
          => /\ lastFrameSentRef' = sink'.time
             /\ sink'.session = videoRef'
             /\ frameCount' >= 1]_vars

\* the second session made its second send, and the frame sent, of another
\* size than the first, is the baseline
C22_Witness ==
  /\ lastOp = "tick"
  /\ Len(videos) = 2
  /\ videoRef = 2
  /\ sink.session = 2
  /\ sink.prevSession = 2
  /\ frameCount = 2
  /\ lastFrameSentRef = now
  /\ shown = [surface |-> "ready", content |-> "A", dims |-> <<2, 2>>]
  /\ previousFrameRef = Some(CurrentFrame("A", <<2, 2>>))

\* C23: a tick that skips, for the rate floor or for too small a change, leaves
\* the baseline and the last-send time as they are, so the frame a later tick
\* is compared with is the frame last sent: that tick sends exactly when the
\* change from that frame reaches changeThreshold, whatever the frames skipped
\* in between showed.
C23_SkipKeepsBaseline ==
  [][/\ (lastOp' \in {"tick", "queuedTick"} /\ framesSkipped' = framesSkipped + 1)
          => /\ previousFrameRef' = previousFrameRef
             /\ lastFrameSentRef' = lastFrameSentRef
             /\ sink' = sink
     /\ Detecting
          => (sink'.count = sink.count + 1
                <=> FracGeq(calculateFrameDifference(TickFrame, previousFrameRef[1]),
                            streamConfig.changeThreshold))]_vars

\* after the baseline "A" was sent and a tick was skipped for the rate floor, a
\* tick found a frame that differs from "A" in one of two sampled pixels,
\* skipped it under changeThreshold 1, and "A" is still the baseline
C23_Witness ==
  /\ lastOp = "tick"
  /\ shown = [surface |-> "ready", content |-> "B", dims |-> <<3, 2>>]
  /\ previousFrameRef = Some(CurrentFrame("A", <<3, 2>>))
  /\ streamConfig.changeThreshold = <<1, 1>>
  /\ framesSkipped = 2
  /\ frameCount = 1
  /\ evals = 3

\* C24: change detection counts the pixels, among every 4th, whose red, green
\* or blue differs from the baseline's by more than 20: the change fraction is
\* that count over a quarter of the pixels, and under the default threshold a
\* frame is sent exactly when some such pixel exists.  A difference of exactly
\* 20, or of the alpha channel, or of a pixel in between, does not count.
C24_CountsSampledAboveDelta ==
  [][(Detecting /\ SameSize(TickFrame, previousFrameRef[1]))
       => LET changed == { q \in SampledPixels(TickFrame) :
                             Differs(TickFrame, previousFrameRef[1], q) }
          IN /\ calculateFrameDifference(TickFrame, previousFrameRef[1])
                  = <<Cardinality(changed) * sampleRate,
                      TickFrame.width * TickFrame.height>>
             /\ sink'.count = sink.count + 1 <=> changed # {}]_vars

\* a frame with 20 more in every colour channel of every pixel than the
\* baseline was evaluated past the rate floor and skipped
C24_Witness ==
  /\ lastOp = "tick"
  /\ shown = [surface |-> "ready", content |-> "P", dims |-> <<4, 2>>]
  /\ previousFrameRef = Some(CurrentFrame("A", <<4, 2>>))
  /\ now - lastFrameSentRef >= streamConfig.minFrameInterval
  /\ framesSkipped = 2
  /\ frameCount = 1

\* the factor of a proportional reduction to at most maxWidth by maxHeight:
\* the smaller of maxWidth / videoWidth and maxHeight / videoHeight, at most 1
ScaleOf(videoWidth, videoHeight, cfg) ==
  LET a == <<cfg.maxWidth, videoWidth>>
      b == <<cfg.maxHeight, videoHeight>>
      m == IF a[1] * b[2] <= b[1] * a[2] THEN a ELSE b
  IN IF m[1] >= m[2] THEN <<1, 1>> ELSE m

\* C25: a frame that is sent has the size of the video reduced in proportion,
\* by the width constraint and then by the height constraint on what the width
\* constraint left, which is the reduction by the tighter of the two, with the
\* fractions of a pixel cut off (and one pixel less in width where both apply
\* and rounding leaves the width below a whole number); a video that fits has
\* a frame of its own size.
C25_ProportionalNoUpscale ==
  [][sink'.count = sink.count + 1
       => LET f == previousFrameRef'[1]
              videoWidth == shown'.dims[1]
              videoHeight == shown'.dims[2]
              k == ScaleOf(videoWidth, videoHeight, streamConfig)
              both == /\ videoWidth > streamConfig.maxWidth
                      /\ videoHeight * streamConfig.maxWidth
                           > streamConfig.maxHeight * videoWidth
          IN /\ f.height = (videoHeight * k[1]) \div k[2]
             /\ \/ f.width = (videoWidth * k[1]) \div k[2]
                \/ both /\ f.width = (videoWidth * k[1]) \div k[2] - 1
             /\ (videoWidth <= streamConfig.maxWidth
                   /\ videoHeight <= streamConfig.maxHeight)
                  => (f.width = videoWidth /\ f.height = videoHeight)]_vars

\* a 6 by 3 video was sent as a 3 by 1 frame under maxWidth 3, maxHeight 2: it
\* is wider and higher than allowed, but only the width constraint applies,
\* since it leaves a height of 1.5
C25_Witness ==
  /\ lastOp = "tick"
  /\ streamConfig.maxWidth = 3
  /\ streamConfig.maxHeight = 2
  /\ shown = [surface |-> "ready", content |-> "A", dims |-> <<6, 3>>]
  /\ lastFrameSentRef = now
  /\ previousFrameRef = Some(CurrentFrame("A", <<3, 1>>))

\* C26: when no element is held, that is after stopStreaming and before the
\* next startStreaming, the sampler is not active: isStreaming is false, no
\* timer is held and currentSource is null, whatever callbacks run.
C26_StoppedStaysStopped ==
  videoRef = NULL
    => (~isStreaming /\ intervalRef = NULL /\ currentSource = NoSource)

\* C27: when startStreaming has returned, frameCount and framesSkipped are 0,
\* there is no baseline and the last-send time is 0, until the first tick of
\* the new session, whatever the session before left.
C27_StartResets ==
  lastOp = "start"
    => /\ frameCount = 0
       /\ framesSkipped = 0
       /\ previousFrameRef = None
       /\ lastFrameSentRef = 0
       /\ ~changeDetected

\* a second session was started after the first had sent two frames
C27_Witness ==
  /\ lastOp = "start"
  /\ Len(videos) = 2
  /\ sink.count = 2
  /\ sink.session = 1
  /\ renderedCounts # <<0, 0>>

(***************************************************************************)
(* The flashcard tools of the server.  A call of execute runs up to its    *)
(* next await in one step; calls of different requests interleave at the   *)
(* awaits.  $sample picks any one document that passed the $match stage.   *)
(***************************************************************************)
\* flashcard._id.toString(), the hex string of the id, and new ObjectId(hex)
toHexString(id) == <<"hex", id>>
ObjectId(hex) == hex[2]

\* create_flashcard: insertOne gives the document a fresh _id
createFlashcard ==
  /\ Cardinality(flashcards) < MaxCards
  /\ flashcards' = flashcards \cup {Cardinality(flashcards) + 1}
  /\ outcome' = NoOutcome
  /\ UNCHANGED <<previousFlashcardId, sessions, executions, served>>
  /\ UNCHANGED <<samplerVars, mediaVars, wsVars>>

\* get_random_flashcard is called for a session: execute awaits getDb()
execute(sessionId) ==
  /\ executions[sessionId].pc = "idle"
  /\ executions' = [executions EXCEPT ![sessionId].pc = "getDb"]
  /\ outcome' = NoOutcome
  /\ UNCHANGED <<flashcards, previousFlashcardId, sessions, served>>
  /\ UNCHANGED <<samplerVars, mediaVars, wsVars>>

\* the $match stage built from the module-level id
MatchStage(previous) == IF previous # None THEN ObjectId(previous) ELSE NULL

\* getDb() has resolved: the match stage is built from previousFlashcardId and
\* the aggregation is awaited
BuildPipeline(sessionId) ==
  /\ executions[sessionId].pc = "getDb"
  /\ executions' = [executions EXCEPT
                      ![sessionId].pc = "aggregate",
                      ![sessionId].matchStage = MatchStage(previousFlashcardId)]
  /\ outcome' = NoOutcome
  /\ UNCHANGED <<flashcards, previousFlashcardId, sessions, served>>
  /\ UNCHANGED <<samplerVars, mediaVars, wsVars>>

\* the documents that pass the $match stage
Matching(matchStage) == { id \in flashcards : id # matchStage }

\* the aggregation has resolved with no document: the call returns found: false
ReturnNotFound(sessionId) ==
  /\ executions[sessionId].pc = "aggregate"
  /\ Matching(executions[sessionId].matchStage) = {}
  /\ executions' = [executions EXCEPT ![sessionId] = NoExecution]
  /\ outcome' = [sessionId |-> sessionId, found |-> FALSE, flashcard |-> NULL]
  /\ UNCHANGED <<flashcards, previousFlashcardId, sessions, served>>
  /\ UNCHANGED <<samplerVars, mediaVars, wsVars>>

\* the aggregation has resolved with a document: it becomes the previous
\* flashcard and the update of the session is awaited
Sampled(sessionId) ==
  /\ executions[sessionId].pc = "aggregate"
  /\ \E id \in Matching(executions[sessionId].matchStage) :
       /\ previousFlashcardId' = toHexString(id)
       /\ executions' = [executions EXCEPT ![sessionId].pc = "updateOne",
                                           ![sessionId].flashcard = id]
  /\ outcome' = NoOutcome
  /\ UNCHANGED <<flashcards, sessions, served>>
  /\ UNCHANGED <<samplerVars, mediaVars, wsVars>>

\* updateOne has resolved, having set the session's currentFlashcardId: the
\* call returns found: true with the flashcard
ReturnFound(sessionId) ==
  /\ executions[sessionId].pc = "updateOne"
  /\ sessions' = [sessions EXCEPT ![sessionId] = executions[sessionId].flashcard]
  /\ executions' = [executions EXCEPT ![sessionId] = NoExecution]
  /\ outcome' = [sessionId |-> sessionId, found |-> TRUE,
                 flashcard |-> executions[sessionId].flashcard]
  /\ served' = <<served[2], executions[sessionId].flashcard>>
  /\ UNCHANGED <<flashcards, previousFlashcardId>>
  /\ UNCHANGED <<samplerVars, mediaVars, wsVars>>

CardInit ==
  /\ streamConfig = DEFAULT_CONFIG
  /\ stream = "live"
  /\ HookInit

CardNext ==
  \/ createFlashcard
  \/ \E sessionId \in SessionIds : execute(sessionId)
  \/ \E sessionId \in SessionIds : BuildPipeline(sessionId)
  \/ \E sessionId \in SessionIds : ReturnNotFound(sessionId)
  \/ \E sessionId \in SessionIds : Sampled(sessionId)
  \/ \E sessionId \in SessionIds : ReturnFound(sessionId)

CardSpec == CardInit /\ [][CardNext]_vars

(***************************************************************************)
(* Properties of the flashcard tools.                                      *)
(***************************************************************************)
\* C28: get_random_flashcard never returns the same flashcard on two
\* consecutive successful calls, whatever the sessions of the two calls; and
\* a call that finds the only flashcard of the collection excluded as the
\* previous one returns found: false and changes neither the previous-card id
\* nor the current flashcard of any session.
C28_NoImmediateRepeat ==
  [][/\ outcome'.found => outcome'.flashcard # served[2]
     /\ (/\ outcome'.sessionId # ""
         /\ ~outcome'.found
         /\ previousFlashcardId # None
         /\ flashcards = {ObjectId(previousFlashcardId)})
        => /\ previousFlashcardId' = previousFlashcardId
           /\ sessions' = sessions]_vars

(***************************************************************************)
(* The media-share hook.  The callbacks of a render read the state of that *)
(* render; setState updates the state, which the callbacks see from the    *)
(* next render on.  stopScreenShare and stopCamera are rebuilt when their  *)
(* stream changes, and the effect that depends on them then runs the       *)
(* cleanup of the render before.                                           *)
(***************************************************************************)
\* stopStream: stops every track of the stream, if there is one
stopStream(streams, id) ==
  [i \in DOMAIN streams |->
     IF i = id THEN [streams[i] EXCEPT !.live = FALSE] ELSE streams[i]]

\* startScreenShare / startCamera of the last render while it sees no stream:
\* the acquisition is awaited
StartMedia(kind) ==
  /\ renderedMedia[kind] = NULL
  /\ Len(mediaStreams) + acquiring["screen"] + acquiring["camera"] < MaxAcquisitions
  /\ acquiring' = [acquiring EXCEPT ![kind] = @ + 1]
  /\ mediaOp' = "start"
  /\ UNCHANGED <<mediaState, renderedMedia, mediaStreams>>
  /\ UNCHANGED <<samplerVars, toolVars, wsVars>>

\* startScreenShare / startCamera of the last render while it sees a stream:
\* returns that stream
StartHeld(kind) ==
  /\ renderedMedia[kind] # NULL
  /\ mediaOp' = "held"
  /\ UNCHANGED <<mediaState, renderedMedia, mediaStreams, acquiring>>
  /\ UNCHANGED <<samplerVars, toolVars, wsVars>>

\* the acquisition resolves: addStopListeners with the stop callback of the
\* render of the call, which saw no stream, and setState with the stream
Acquired(kind) ==
  /\ acquiring[kind] > 0
  /\ acquiring' = [acquiring EXCEPT ![kind] = @ - 1]
  /\ mediaStreams' = Append(mediaStreams, [kind |-> kind, live |-> TRUE])
  /\ mediaState' = [mediaState EXCEPT ![kind] = Len(mediaStreams) + 1]
  /\ mediaOp' = "acquired"
  /\ UNCHANGED renderedMedia
  /\ UNCHANGED <<samplerVars, toolVars, wsVars>>

\* the acquisition rejects: the error is recorded and rethrown
AcquireFailed(kind) ==
  /\ acquiring[kind] > 0
  /\ acquiring' = [acquiring EXCEPT ![kind] = @ - 1]
  /\ mediaOp' = "failed"
  /\ UNCHANGED <<mediaState, renderedMedia, mediaStreams>>
  /\ UNCHANGED <<samplerVars, toolVars, wsVars>>

\* stopScreenShare / stopCamera of the last render
StopMedia(kind) ==
  /\ mediaStreams' = stopStream(mediaStreams, renderedMedia[kind])
  /\ mediaState' = [mediaState EXCEPT ![kind] = NULL]
  /\ mediaOp' = "stop"
  /\ UNCHANGED <<renderedMedia, acquiring>>
  /\ UNCHANGED <<samplerVars, toolVars, wsVars>>

startScreenShare == StartMedia("screen") \/ StartHeld("screen")
startCamera == StartMedia("camera") \/ StartHeld("camera")
stopScreenShare == StopMedia("screen")
stopCamera == StopMedia("camera")

\* a video track of the stream ends (the user ends the share in the browser):
\* the "ended" listener is the stop callback registered at acquisition, whose
\* render saw no stream
MediaTrackEnded(id) ==
  /\ mediaStreams[id].live
  /\ mediaStreams' = stopStream(stopStream(mediaStreams, id), NULL)
  /\ mediaState' = [mediaState EXCEPT ![mediaStreams[id].kind] = NULL]
  /\ mediaOp' = "ended"
  /\ UNCHANGED <<renderedMedia, acquiring>>
  /\ UNCHANGED <<samplerVars, toolVars, wsVars>>

\* the hook renders with a changed stream: stopScreenShare or stopCamera is
\* rebuilt, so the effect runs the cleanup of the render before, which calls
\* that render's stopScreenShare and stopCamera
MediaEffectCleanup ==
  /\ mediaState # renderedMedia
  /\ renderedMedia' = mediaState
  /\ mediaStreams' = stopStream(stopStream(mediaStreams, renderedMedia["screen"]),
                                renderedMedia["camera"])
  /\ mediaState' = NoMedia
  /\ mediaOp' = "cleanup"
  /\ UNCHANGED acquiring
  /\ UNCHANGED <<samplerVars, toolVars, wsVars>>

MediaSpecInit ==
  /\ streamConfig = DEFAULT_CONFIG
  /\ stream = "live"
  /\ HookInit

MediaNext ==
  \/ startScreenShare
  \/ startCamera
  \/ stopScreenShare
  \/ stopCamera
  \/ \E kind \in MediaKinds : Acquired(kind)
  \/ \E kind \in MediaKinds : AcquireFailed(kind)
  \/ \E id \in DOMAIN mediaStreams : MediaTrackEnded(id)
  \/ MediaEffectCleanup

MediaSpec == MediaSpecInit /\ [][MediaNext]_vars

(***************************************************************************)
(* Properties of the media-share hook.                                     *)
(***************************************************************************)
\* no acquisition is awaited and the hook has rendered its latest state
MediaSettled ==
  /\ \A k \in MediaKinds : acquiring[k] = 0
  /\ renderedMedia = mediaState

LiveStreams(kind) ==
  { i \in DOMAIN mediaStreams : mediaStreams[i].kind = kind /\ mediaStreams[i].live }

\* C29: once the overlapping calls of startScreenShare / stopScreenShare (and
\* of startCamera / stopCamera) have run to their end, at most one stream of
\* each kind has running tracks, and every stream with running tracks is the
\* one the state of the hook refers to.
C29_NoStreamLeftRunning ==
  MediaSettled
    => \A k \in MediaKinds :
         /\ Cardinality(LiveStreams(k)) <= 1
         /\ \A i \in LiveStreams(k) : mediaState[k] = i

(***************************************************************************)
(* The tool calls of the realtime connection (ws.onmessage of useWebSocket, *)
(* message type response.function_call_arguments.done).  The handler is    *)
(* async: it runs up to the await of executeToolOnServer in one step, and  *)
(* the handlers of several tool calls interleave at that await.  sent      *)
(* records every call of ws.send with the readyState of the socket at the  *)
(* call; the platform discards what is passed to a socket that is closed.  *)
(***************************************************************************)
ToolNames == {"switch_agent", "create_flashcard", "get_random_flashcard"}

\* what executeToolOnServer resolves with, by tool: "switched" is a result
\* with switched: true and an agent, "success" one with success: true,
\* "other" any other result
ToolResults(name) ==
  IF name = "switch_agent" THEN {"switched", "other"}
  ELSE IF name = "create_flashcard" THEN {"success", "other"}
  ELSE {"other"}

FunctionOutput(call_id, output) ==
  [type |-> "conversation.item.create", call_id |-> call_id, output |-> output,
   open |-> socket = "open"]

ResponseCreate ==
  [type |-> "response.create", call_id |-> NULL, output |-> "",
   open |-> socket = "open"]

\* the catch block sends nothing
SendError_Silent(call_id) == sent

\* the catch block: the error is sent as the output, then response.create
SendError(call_id) ==
  sent \o <<FunctionOutput(call_id, "error"), ResponseCreate>>

\* the result is sent as the output, then response.create
SendResult(call_id) ==
  sent \o <<FunctionOutput(call_id, "result"), ResponseCreate>>

\* ws.onopen
onopen ==
  /\ socket = "connecting"
  /\ socket' = "open"
  /\ UNCHANGED <<toolCalls, sent, pendingAgentSwitch>>
  /\ UNCHANGED <<samplerVars, toolVars, mediaVars>>

\* the connection is closed by the peer or by disconnect()
onclose ==
  /\ socket = "open"
  /\ socket' = "closed"
  /\ UNCHANGED <<toolCalls, sent, pendingAgentSwitch>>
  /\ UNCHANGED <<samplerVars, toolVars, mediaVars>>

\* a tool call arrives.  When its arguments are not JSON, JSON.parse throws
\* and the catch block answers; otherwise executeToolOnServer is awaited.
ToolCallReceived(call_id, name, argumentsAreJson) ==
  /\ socket = "open"
  /\ toolCalls[call_id].pc = "none"
  /\ \A c \in CallIds : c < call_id => toolCalls[c].pc # "none"
  /\ IF argumentsAreJson
     THEN /\ toolCalls' = [toolCalls EXCEPT ![call_id].pc = "executing",
                                            ![call_id].name = name]
          /\ UNCHANGED sent
     ELSE /\ toolCalls' = [toolCalls EXCEPT ![call_id].pc = "done",
                                            ![call_id].name = name,
                                            ![call_id].result = "threw",
                                            ![call_id].relayed = TRUE]
          /\ sent' = SendError(call_id)
  /\ UNCHANGED <<socket, pendingAgentSwitch>>
  /\ UNCHANGED <<samplerVars, toolVars, mediaVars>>

\* executeToolOnServer rejects (the request failed or the response is not ok)
ExecutionRejected(call_id) ==
  /\ toolCalls[call_id].pc = "executing"
  /\ toolCalls' = [toolCalls EXCEPT ![call_id].pc = "done",
                                    ![call_id].result = "threw",
                                    ![call_id].relayed = TRUE]
  /\ sent' = SendError(call_id)
  /\ UNCHANGED <<socket, pendingAgentSwitch>>
  /\ UNCHANGED <<samplerVars, toolVars, mediaVars>>

\* executeToolOnServer resolves with a result; onMessageThrows says whether
\* the onMessage callback of the hook's user throws when it is called
ExecutionResolved(call_id, result, onMessageThrows) ==
  /\ toolCalls[call_id].pc = "executing"
  /\ result \in ToolResults(toolCalls[call_id].name)
  /\ IF toolCalls[call_id].name = "switch_agent" /\ result = "switched"
     THEN \* ws.close(); setPendingAgentSwitch(newAgent); return
          /\ socket' = "closed"
          /\ pendingAgentSwitch' = Some("newAgent")
          /\ toolCalls' = [toolCalls EXCEPT ![call_id].pc = "done",
                                            ![call_id].result = result]
          /\ UNCHANGED sent
     ELSE IF toolCalls[call_id].name = "create_flashcard" /\ result = "success"
                                                           /\ onMessageThrows
     THEN \* onMessage({type: "flashcard.created", ...}) throws: the catch block
          /\ toolCalls' = [toolCalls EXCEPT ![call_id].pc = "done",
                                            ![call_id].result = result]
          /\ sent' = SendError(call_id)
          /\ UNCHANGED <<socket, pendingAgentSwitch>>
     ELSE /\ toolCalls' = [toolCalls EXCEPT
                             ![call_id].pc = "done",
                             ![call_id].result = result,
                             ![call_id].created =
                                (toolCalls[call_id].name = "create_flashcard"
                                   /\ result = "success"),
                             ![call_id].relayed = ~onMessageThrows]
          /\ sent' = SendResult(call_id)
          /\ UNCHANGED <<socket, pendingAgentSwitch>>
  /\ UNCHANGED <<samplerVars, toolVars, mediaVars>>

ToolCallInit ==
  /\ streamConfig = DEFAULT_CONFIG
  /\ stream = "live"
  /\ HookInit

ToolCallNext ==
  \/ onopen
  \/ onclose
  \/ \E call_id \in CallIds : \E name \in ToolNames : \E argumentsAreJson \in BOOLEAN :
       ToolCallReceived(call_id, name, argumentsAreJson)
  \/ \E call_id \in CallIds : ExecutionRejected(call_id)
  \/ \E call_id \in CallIds : \E result \in {"switched", "success", "other"} :
       \E onMessageThrows \in BOOLEAN :
         ExecutionResolved(call_id, result, onMessageThrows)

ToolCallSpec == ToolCallInit /\ [][ToolCallNext]_vars

(***************************************************************************)
(* Properties of the tool calls of the realtime connection.                *)
(***************************************************************************)
\* the positions in sent of the function_call_output of a tool call
OutputsOf(call_id) ==
  { i \in DOMAIN sent : sent[i].type = "conversation.item.create"
                          /\ sent[i].call_id = call_id }

SwitchedAgent(call_id) ==
  toolCalls[call_id].name = "switch_agent" /\ toolCalls[call_id].result = "switched"

\* C30: for every tool call whose handler has finished, the client has sent
\* exactly one function_call_output with the call_id of the call, directly
\* followed by response.create, whether the execution succeeded or failed;
\* except after a successful switch_agent, for which the socket is closed,
\* the pending agent switch is recorded and nothing is sent.  A call whose
\* handler has not finished has no output yet, and there is one
\* response.create for each output.
C30_OneOutputPerToolCall ==
  /\ \A c \in CallIds :
       IF toolCalls[c].pc # "done" THEN OutputsOf(c) = {}
       ELSE IF SwitchedAgent(c)
       THEN /\ OutputsOf(c) = {}
            /\ socket = "closed"
            /\ pendingAgentSwitch # None
       ELSE /\ Cardinality(OutputsOf(c)) = 1
            /\ \A i \in OutputsOf(c) :
                 i + 1 \in DOMAIN sent /\ sent[i + 1].type = "response.create"
  /\ Cardinality({ i \in DOMAIN sent : sent[i].type = "response.create" }) * 2
       = Len(sent)

\* one tool call failed on the server and was answered with the error, and a
\* switch_agent succeeded and was not answered
C30_Witness ==
  /\ \E c \in CallIds :
       /\ toolCalls[c].pc = "done"
       /\ toolCalls[c].result = "threw"
       /\ \E i \in OutputsOf(c) : sent[i].output = "error"
  /\ \E c \in CallIds : toolCalls[c].pc = "done" /\ SwitchedAgent(c)

====
